---- MODULE Spec2Model ----
(***************************************************************************)
(* Model of the pingmeter bot: the ping ledger (table pings), the identity *)
(* directory (table users) and the message handlers that drive them.       *)
(*                                                                         *)
(* Every handler invocation is a task.  A task advances one database       *)
(* statement (one `await conn.fetchrow/execute`) per step: db.py opens no  *)
(* transaction around the statements of record_ping, update_temp_user and  *)
(* close_oldest_open_ping_by_message, so each statement commits on its own *)
(* and statements of different tasks interleave.                           *)
(*   Spec     the dispatcher runs the handlers of different updates as     *)
(*            concurrent tasks (Dispatcher.start_polling, main.py).        *)
(*   SeqSpec  every event is fully processed before the next one starts.   *)
(*   AdminSpec  SeqSpec's discipline with /deactivate_chat, /clear_db and   *)
(*            reactions among the events.                                  *)
(*   ReplySpec  SeqSpec's discipline with replies to a message and the      *)
(*            mention that is only '@' among the events.                   *)
(*   HandleSpec  SeqSpec's discipline with handles that differ in case and  *)
(*            mentions of bot accounts.                                    *)
(*   RaceSpec  concurrent handlers in two conversations with               *)
(*            /deactivate_chat running between their statements.           *)
(*   FaultSpec  SeqSpec's discipline where any statement of a handler may  *)
(*            fail in the database.                                        *)
(*   LedgerSpec  SeqSpec's discipline with get_top read between the events.*)
(*   StatsSpec  the methods of Database called one after another, the      *)
(*            queries get_top, get_user_stats and get_open_pings among     *)
(*            them.                                                        *)
(*   DialogSpec  the activation dialog (/generate_code, /activate, /name)  *)
(*            and check_admin_rights with its cache, one message at a time.*)
(*   FormatSpec  format_duration applied to durations of every tier.       *)
(* The columns first_name, last_name, created_at and reaction_emoji are    *)
(* not read by any modelled statement and are left out of the rows.        *)
(***************************************************************************)
EXTENDS Integers, Sequences, FiniteSets, TLC

\* ------------------------------------------------------------------ bounds
MaxTasks == 2
SeqMsgs == 2
ConcMsgs == 3
MaxTime == 2
MaxEnts == 2
StatsPings == 3
StatsTime == 3
RaceMsgs == 2
\* _admin_cache_ttl = 300
_admin_cache_ttl == 300
\* timedelta(hours=24), in seconds
CodeLifetime == 86400
\* format_duration is applied to 0..MaxSeconds and to the neighbours of the
\* first FormatUnits multiples of a minute, an hour and a day
MaxSeconds == 120
FormatUnits == 2

\* ------------------------------------------------------------- value space
NULL == 0
\* `result` before close_oldest_open_ping_by_message has been awaited
NotCalled == -1
NoUsername == "<none>"
NoType == "<none>"

Chats == {1, 2}
Senders == {42, 43}
Handles == {"alice", "Alice"}
\* me = await bot.get_me(): the bot's id and handle; Bots are the accounts whose
\* User.is_bot is true
BotId == 99
BotUsername == "pingmeter_bot"
Bots == {98, BotId}
Tasks == 1..MaxTasks

\* SQL lower() / str.lower over the handles of the model
Lower(s) == IF s = "Alice" THEN "alice" ELSE s

\* int(hashlib.md5(username.encode()).hexdigest()[:8], 16) % (2**31)
_hash_username(username) ==
    CASE username = "alice" -> 1669653170
      [] username = "Alice" -> 1682480261
      [] username = "pingmeter_bot" -> 1530139050
      [] OTHER -> 1411222745

TextMention(u) == [type |-> "text_mention", user |-> u, username |-> NoUsername]
Mention(h) == [type |-> "mention", user |-> NULL, username |-> h]
EntPool == {TextMention(42)} \cup {Mention(h) : h \in Handles}

RECURSIVE SeqsUpTo(_, _)
SeqsUpTo(S, n) ==
    IF n = 0 THEN {<<>>}
    ELSE LET shorter == SeqsUpTo(S, n - 1)
         IN shorter \cup {Append(s, x) : s \in {q \in shorter : Len(q) = n - 1}, x \in S}

EntLists == SeqsUpTo(EntPool, MaxEnts)

VARIABLES
    users,            \* table users: set of rows, primary key user_id
    pings,            \* table pings: set of rows, primary key id
    next_ping_id,     \* the SERIAL sequence of pings.id
    activated_chats,  \* table activated_chats: set of chat ids
    clock,            \* wall clock, whole seconds
    next_message_id,  \* message ids handed out by the platform
    tasks,            \* handler invocations: position and locals
    activation_codes, \* table activation_codes: set of rows, code UNIQUE
    fsm,              \* FSM storage: state and data of each (chat, user)
    _admin_cache      \* (chat_id, user_id) -> time of the entry

dialogVars == <<activation_codes, fsm, _admin_cache>>

vars == <<users, pings, next_ping_id, activated_chats, clock, next_message_id, tasks,
          activation_codes, fsm, _admin_cache>>

\* `now`: the `now` local of upsert_user, update_temp_user and
\* create_temp_user_by_username, read from the clock when the method is entered,
\* before it awaits the pool and the statement.
\* `reply_to`: message.reply_to_message.from_user.id, NULL when the message is no reply.
\* `reply`: what a query handler has fetched, nothing for the other handlers
NoReply == [fn |-> "none"]

IdleTask ==
    [pc |-> "idle", kind |-> "none", chat |-> NULL, from |-> NULL, uname |-> NoUsername,
     ents |-> <<>>, date |-> NULL, mid |-> NULL, tmp |-> NULL, username |-> NoUsername,
     target |-> NULL, reason |-> NoType, ping_id |-> NULL, result |-> NotCalled,
     open0 |-> 0, rp |-> "none", reply |-> NoReply, now |-> NULL, reply_to |-> NULL]

AllIdle == \A t \in Tasks : tasks[t].pc = "idle"

\* await state.clear(): no state, no data
NoFsm == [state |-> "none", activation_code |-> "", chat_id |-> NULL]

Init ==
    /\ users = {}
    /\ pings = {}
    /\ next_ping_id = 1
    /\ activated_chats = {}
    /\ activation_codes = {}
    /\ fsm = [key \in Chats \X Senders |-> NoFsm]
    /\ _admin_cache = <<>>
    /\ clock = 1
    /\ next_message_id = 1
    /\ tasks = [t \in Tasks |-> IdleTask]


\* ---------------------------------------------------------- table helpers
PingRow(id, chat_id, source_message_id, source_user_id, target_user_id, ping_reason, ping_ts) ==
    [id |-> id, chat_id |-> chat_id, source_message_id |-> source_message_id,
     source_user_id |-> source_user_id, target_user_id |-> target_user_id,
     ping_reason |-> ping_reason, ping_ts |-> ping_ts,
     close_ts |-> NULL, close_type |-> NoType, close_message_id |-> NULL]

UserRow(user_id, username, last_seen_ts) ==
    [user_id |-> user_id, username |-> username, last_seen_ts |-> last_seen_ts]

\* WHERE chat_id=$1 AND target_user_id=$2 AND close_ts IS NULL
OpenPings(ps, chat_id, target_user_id) ==
    {p \in ps : p.chat_id = chat_id /\ p.target_user_id = target_user_id /\ p.close_ts = NULL}

\* ------------------------------------------------------------- record_ping
\* SELECT id FROM pings WHERE chat_id=$1 AND target_user_id=$2 AND close_ts IS NULL LIMIT 1
\* followed by `if row: return`
RecordPingExists_AnyRow(ps, chat_id, target_user_id) ==
    \E p \in ps : p.chat_id = chat_id /\ p.target_user_id = target_user_id

RecordPingExists_NoCheck(ps, chat_id, target_user_id) == FALSE

RecordPingExists(ps, chat_id, target_user_id) ==
    OpenPings(ps, chat_id, target_user_id) # {}

\* INSERT INTO pings(chat_id, source_message_id, source_user_id, target_user_id, ping_reason, ping_ts)
RecordPingInsert(ps, id, chat_id, source_message_id, source_user_id, target_user_id, ping_reason, ping_ts) ==
    ps \cup {PingRow(id, chat_id, source_message_id, source_user_id, target_user_id,
                     ping_reason, ping_ts)}

\* ------------------------------------------- close_oldest_open_ping_by_message
\* SELECT id ... WHERE chat_id=$1 AND target_user_id=$2 AND close_ts IS NULL
\* ORDER BY ping_ts ASC LIMIT 1.  The ORDER BY names ping_ts only: among rows
\* with the same smallest ping_ts the database returns any one of them.
CloseCandidates_AnyTarget(ps, chat_id, target_user_id) ==
    LET open == {p \in ps : p.chat_id = chat_id /\ p.close_ts = NULL}
    IN {p.id : p \in {q \in open : \A r \in open : q.ping_ts <= r.ping_ts}}

CloseCandidates_BySource(ps, chat_id, target_user_id) ==
    {p.id : p \in {q \in ps : /\ q.chat_id = chat_id /\ q.source_user_id = target_user_id
                               /\ q.close_ts = NULL}}

CloseCandidates_AnyChat(ps, chat_id, target_user_id) ==
    LET open == {p \in ps : p.target_user_id = target_user_id /\ p.close_ts = NULL}
    IN {p.id : p \in {q \in open : \A r \in open : q.ping_ts <= r.ping_ts}}

CloseCandidates(ps, chat_id, target_user_id) ==
    LET open == OpenPings(ps, chat_id, target_user_id)
    IN {p.id : p \in {q \in open : \A r \in open : q.ping_ts <= r.ping_ts}}

\* UPDATE pings SET close_ts=$1, close_type='message', close_message_id=$2 WHERE id=$3
CloseUpdate_NoWhere(ps, close_ts, close_message_id, ping_id) ==
    {[p EXCEPT !.close_ts = close_ts, !.close_type = "message",
               !.close_message_id = close_message_id] : p \in ps}

CloseUpdate_TsOnly(ps, close_ts, close_message_id, ping_id) ==
    {IF p.id = ping_id THEN [p EXCEPT !.close_ts = close_ts] ELSE p : p \in ps}

CloseUpdate(ps, close_ts, close_message_id, ping_id) ==
    {IF p.id = ping_id
     THEN [p EXCEPT !.close_ts = close_ts, !.close_type = "message",
                    !.close_message_id = close_message_id]
     ELSE p : p \in ps}

\* ---------------------------------------------------------- resolve_username
\* SELECT user_id FROM users WHERE lower(username)=lower($1)
\* ORDER BY last_seen_ts DESC LIMIT 1; rows tied on last_seen_ts come in any order.
ResolveCandidates(us, username) ==
    LET match == {u \in us : u.username # NoUsername /\ Lower(u.username) = Lower(username)}
    IN {u.user_id : u \in {v \in match : \A w \in match : v.last_seen_ts >= w.last_seen_ts}}

\* ------------------------------------------------ create_temp_user_by_username
\* user_id = -_hash_username(username)
TempUserId_Unsigned(username) == _hash_username(username)

TempUserId(username) == 0 - _hash_username(username)

\* INSERT INTO users ... ON CONFLICT (user_id) DO UPDATE SET username, last_seen_ts
CreateTempUser(us, username, now) ==
    {u \in us : u.user_id # TempUserId(username)}
        \cup {UserRow(TempUserId(username), username, now)}

\* ------------------------------------------------------------- upsert_user
\* INSERT INTO users ... ON CONFLICT (user_id) DO UPDATE SET username, ..., last_seen_ts
UpsertUser(us, user_id, username, now) ==
    {u \in us : u.user_id # user_id} \cup {UserRow(user_id, username, now)}

\* ---------------------------------------------------------- update_temp_user
\* SELECT user_id FROM users WHERE username = $1 AND user_id < 0
TempUserCandidates(us, username) ==
    {u.user_id : u \in {v \in us : v.username = username /\ v.user_id < 0}}

\* UPDATE users SET user_id = $1 ... WHERE user_id = $5 breaks the primary key
\* when a row with user_id = $1 already exists: asyncpg raises UniqueViolationError.
UpdateTempUserConflict(us, real_user_id, temp_user_id) ==
    /\ \E u \in us : u.user_id = temp_user_id
    /\ \E u \in us : u.user_id = real_user_id

\* UPDATE users SET user_id = $1, first_name, last_name, last_seen_ts = $4 WHERE user_id = $5
UpdateTempUserRow(us, real_user_id, now, temp_user_id) ==
    {IF u.user_id = temp_user_id
     THEN [u EXCEPT !.user_id = real_user_id, !.last_seen_ts = now]
     ELSE u : u \in us}

\* UPDATE pings SET target_user_id = $1 WHERE target_user_id = $2
UpdateTempUserPings(ps, real_user_id, temp_user_id) ==
    {IF p.target_user_id = temp_user_id
     THEN [p EXCEPT !.target_user_id = real_user_id]
     ELSE p : p \in ps}

\* --------------------------------------------------------------- get_open_pings
\* SELECT target_user_id, ping_ts, source_message_id FROM pings WHERE chat_id=$1 AND close_ts IS NULL
\* The list holds one tuple per row; it is kept here as a function of the row id.
get_open_pings_AllRows(ps, chat_id) ==
    LET rows == {q \in ps : q.chat_id = chat_id}
    IN [i \in {q.id : q \in rows} |->
          LET p == CHOOSE q \in rows : q.id = i
          IN <<p.target_user_id, p.ping_ts, p.source_message_id>>]

get_open_pings(ps, chat_id) ==
    LET rows == {q \in ps : q.chat_id = chat_id /\ q.close_ts = NULL}
    IN [i \in {q.id : q \in rows} |->
          LET p == CHOOSE q \in rows : q.id = i
          IN <<p.target_user_id, p.ping_ts, p.source_message_id>>]

\* ----------------------------------------------------------------- get_top
\* FROM pings p ... WHERE p.chat_id = $1 AND p.close_ts IS NOT NULL
GetTopClosed_AnyChat(ps, chat_id) == {p \in ps : p.close_ts # NULL}

GetTopClosed(ps, chat_id) == {p \in ps : p.chat_id = chat_id /\ p.close_ts # NULL}

\* SUM(close_ts - ping_ts) over a set of closed rows
RECURSIVE SumDurations(_)
SumDurations(rows) ==
    IF rows = {} THEN 0
    ELSE LET p == CHOOSE q \in rows : TRUE
         IN (p.close_ts - p.ping_ts) + SumDurations(rows \ {p})

\* AVG(close_ts - ping_ts): the exact quotient sum/count, kept as <<sum, count>>
Avg(rows) == <<SumDurations(rows), Cardinality(rows)>>

\* a/b <= c/d for averages <<a, b>> and <<c, d>> with positive counts
AvgLeq(x, y) == x[1] * y[2] <= y[1] * x[2]

\* LEFT JOIN users u ON p.target_user_id = u.user_id, then
\* row['username'] or f'user_{row["target_user_id"]}': <<username, NULL>> or <<"user_", id>>
DisplayName(us, user_id) ==
    LET named == {u \in us : u.user_id = user_id /\ u.username # NoUsername}
    IN IF named # {} THEN <<(CHOOSE u \in named : TRUE).username, NULL>>
       ELSE <<"user_", user_id>>

\* the same with JOIN users in place of LEFT JOIN users
GetTopGroups_InnerJoin(ps, us, chat_id) ==
    LET closed == {p \in GetTopClosed(ps, chat_id) : \E u \in us : u.user_id = p.target_user_id}
    IN {LET g == {p \in closed : p.target_user_id = id}
        IN [target_user_id |-> id, n |-> Cardinality(g), avg_sec |-> Avg(g),
            username |-> DisplayName(us, id)] : id \in {p.target_user_id : p \in closed}}

\* SELECT p.target_user_id, COUNT(*) n, AVG(...) avg_sec, u.username
\* ... GROUP BY p.target_user_id, u.username HAVING COUNT(*) >= 1
GetTopGroups(ps, us, chat_id) ==
    LET closed == GetTopClosed(ps, chat_id)
    IN {LET g == {p \in closed : p.target_user_id = id}
        IN [target_user_id |-> id, n |-> Cardinality(g), avg_sec |-> Avg(g),
            username |-> DisplayName(us, id)] : id \in {p.target_user_id : p \in closed}}

\* ORDER BY avg_sec {order} LIMIT $2: every list the database may return; groups
\* with equal averages come in any order.
TopOrdered(groups, limit, order) ==
    LET k == IF limit < Cardinality(groups) THEN limit ELSE Cardinality(groups)
        Before(x, y) == IF order = "ASC" THEN AvgLeq(x.avg_sec, y.avg_sec)
                        ELSE AvgLeq(y.avg_sec, x.avg_sec)
    IN {s \in [1..k -> groups] :
           /\ \A i \in 1..k, j \in 1..k : i < j => s[i] # s[j] /\ Before(s[i], s[j])
           /\ \A g \in groups :
                 (\A i \in 1..k : s[i] # g) => \A i \in 1..k : Before(s[i], g)}

get_top_NoLimit(ps, us, chat_id, limit, order) ==
    TopOrdered(GetTopGroups(ps, us, chat_id), Cardinality(GetTopGroups(ps, us, chat_id)), order)

get_top(ps, us, chat_id, limit, order) ==
    TopOrdered(GetTopGroups(ps, us, chat_id), limit, order)

\* ------------------------------------------------------------- get_user_stats
\* SELECT COUNT(*), AVG(close_ts - ping_ts) FROM pings WHERE chat_id=$1 AND
\* target_user_id=$2 AND close_ts IS NOT NULL [AND ping_ts >= $3];
\* (cnt, avg) if cnt > 0 else None.  None is <<>>, since_ts None is NULL.
get_user_stats_NoSince(ps, chat_id, user_id, since_ts) ==
    LET rows == {p \in ps : /\ p.chat_id = chat_id /\ p.target_user_id = user_id
                            /\ p.close_ts # NULL}
    IN IF Cardinality(rows) > 0 THEN <<Cardinality(rows), Avg(rows)>> ELSE <<>>

get_user_stats(ps, chat_id, user_id, since_ts) ==
    LET rows == {p \in ps : /\ p.chat_id = chat_id /\ p.target_user_id = user_id
                            /\ p.close_ts # NULL
                            /\ since_ts # NULL => p.ping_ts >= since_ts}
    IN IF Cardinality(rows) > 0 THEN <<Cardinality(rows), Avg(rows)>> ELSE <<>>

\* ----------------------------------------------------------- is_chat_activated
\* SELECT chat_id FROM activated_chats WHERE chat_id = $1; return row is not None
is_chat_activated_Always(chats, chat_id) == TRUE

is_chat_activated(chats, chat_id) == chat_id \in chats

\* ------------------------------------------------------------- deactivate_chat
\* 1. DELETE FROM pings WHERE chat_id = $1
DeactivatePings(ps, chat_id) == {p \in ps : p.chat_id # chat_id}

\* 2. SELECT DISTINCT u.user_id FROM users u LEFT JOIN pings p
\*      ON u.user_id = p.source_user_id OR u.user_id = p.target_user_id
\*    WHERE u.user_id IN (SELECT source_user_id FROM pings WHERE chat_id = $1
\*                        UNION SELECT target_user_id FROM pings WHERE chat_id = $1)
\*      AND p.id IS NULL
DeactivateUsersToDelete(us, ps, chat_id) ==
    LET in_chat == {p.source_user_id : p \in {q \in ps : q.chat_id = chat_id}}
                     \cup {p.target_user_id : p \in {q \in ps : q.chat_id = chat_id}}
    IN {u.user_id : u \in {v \in us :
            /\ v.user_id \in in_chat
            /\ ~ \E p \in ps : v.user_id = p.source_user_id \/ v.user_id = p.target_user_id}}

\* 3. DELETE FROM users WHERE user_id = ANY($1)
DeactivateUsers(us, user_ids) == {u \in us : u.user_id \notin user_ids}

\* ------------------------------------------------------------ environment
\* The wall clock advances (message.date, time.time(), datetime.utcnow()).
Tick ==
    /\ clock < MaxTime
    /\ clock' = clock + 1
    /\ UNCHANGED <<users, pings, next_ping_id, activated_chats, next_message_id, tasks, dialogVars>>

\* activate_chat: INSERT INTO activated_chats(chat_id, ...) ON CONFLICT (chat_id) DO UPDATE
activate_chat(chat_id) ==
    /\ chat_id \notin activated_chats
    /\ activated_chats' = activated_chats \cup {chat_id}
    /\ UNCHANGED <<users, pings, next_ping_id, clock, next_message_id, tasks, dialogVars>>

\* /deactivate_chat by the main admin: deactivate_chat returns False for a chat
\* that is not activated; otherwise its statements 1-4 run in one transaction,
\* the users query reading the pings table as statement 1 left it.
deactivate_chat(chat_id) ==
    /\ chat_id \in activated_chats
    /\ LET remaining == DeactivatePings(pings, chat_id)
       IN /\ pings' = remaining
          /\ users' = DeactivateUsers(users, DeactivateUsersToDelete(users, remaining, chat_id))
    /\ activated_chats' = activated_chats \ {chat_id}
    /\ UNCHANGED <<next_ping_id, clock, next_message_id, tasks, dialogVars>>

\* /clear_db and /reset_db by the main admin: DELETE FROM pings, users,
\* activation_codes, activated_chats; ALTER SEQUENCE pings_id_seq RESTART WITH 1
cmd_clear_db ==
    /\ users # {} \/ pings # {} \/ activated_chats # {}
    /\ pings' = {}
    /\ users' = {}
    /\ activated_chats' = {}
    /\ activation_codes' = {}
    /\ next_ping_id' = 1
    /\ UNCHANGED <<clock, next_message_id, tasks, fsm, _admin_cache>>

\* ------------------------------------------------------ on_message: the loop
\* `for ent in entities`: the walk from the current entity to the next database
\* call.  A text_mention of a bot account is skipped (not ent.user.is_bot,
\* ent.user.id != bot_id); another text_mention names its target at once and is
\* skipped when the target is the author; a mention goes to resolve_username;
\* the end of the list goes to the closing call.
RECURSIVE NextEntity(_)
NextEntity(task) ==
    IF task.ents = <<>>
    THEN [task EXCEPT !.pc = "close_select"]
    ELSE LET ent == Head(task.ents)
             rest == [task EXCEPT !.ents = Tail(task.ents)]
         IN IF ent.type = "text_mention"
            THEN IF ent.user # NULL /\ ent.user \notin Bots /\ ent.user # task.from
                 THEN [rest EXCEPT !.pc = "rp_select", !.target = ent.user,
                                   !.reason = ent.type]
                 ELSE NextEntity(rest)
            ELSE [rest EXCEPT !.pc = "resolve", !.username = ent.username,
                              !.reason = ent.type]

\* `if target_user_id and target_user_id != message.from_user.id: record_ping(...)`
AfterTarget(task, target_user_id) ==
    IF target_user_id # NULL /\ target_user_id # task.from
    THEN [task EXCEPT !.pc = "rp_select", !.target = target_user_id]
    ELSE NextEntity(task)

NewTask(kind, chat, from, uname, ents) ==
    [IdleTask EXCEPT !.kind = kind, !.chat = chat, !.from = from, !.uname = uname,
                     !.ents = ents, !.date = clock, !.mid = next_message_id,
                     !.open0 = Cardinality(OpenPings(pings, chat, from))]

\* --------------------------------------------------------- event arrival
\* A message with text or caption that is not a command: on_message.
OnMessageStart(t, chat, from, uname, ents) ==
    /\ tasks[t].pc = "idle"
    /\ next_message_id' = next_message_id + 1
    /\ tasks' = [tasks EXCEPT ![t] =
                    [NewTask("text", chat, from, uname, ents) EXCEPT !.pc = "is_activated"]]
    /\ UNCHANGED <<users, pings, next_ping_id, activated_chats, clock, dialogVars>>

\* A reply without text or caption: on_reply.
OnReplyStart(t, chat, from, uname) ==
    /\ tasks[t].pc = "idle"
    /\ next_message_id' = next_message_id + 1
    /\ tasks' = [tasks EXCEPT ![t] =
                    [NewTask("reply", chat, from, uname, <<>>) EXCEPT !.pc = "is_activated"]]
    /\ UNCHANGED <<users, pings, next_ping_id, activated_chats, clock, dialogVars>>

\* A command: on_message returns at `message.text.startswith('/')`; the command
\* handlers (cmd_help, cmd_me, cmd_top_fast, ...) call no ledger mutation.
CommandMessage(t, chat, from, uname) ==
    /\ tasks[t].pc = "idle"
    /\ next_message_id' = next_message_id + 1
    /\ tasks' = [tasks EXCEPT ![t] =
                    [NewTask("command", chat, from, uname, <<>>) EXCEPT !.pc = "done"]]
    /\ UNCHANGED <<users, pings, next_ping_id, activated_chats, clock, dialogVars>>

\* A message without text, caption or reply (sticker, photo, ...): no handler of
\* the router matches it (F.text | F.caption, F.reply_to_message).
MediaMessage(t, chat, from, uname) ==
    /\ tasks[t].pc = "idle"
    /\ next_message_id' = next_message_id + 1
    /\ tasks' = [tasks EXCEPT ![t] =
                    [NewTask("media", chat, from, uname, <<>>) EXCEPT !.pc = "done"]]
    /\ UNCHANGED <<users, pings, next_ping_id, activated_chats, clock, dialogVars>>

\* A message that replies to a message of reply_to.  With text or caption it
\* goes to on_message (registered first), without to on_reply; neither handler
\* reads message.reply_to_message.
ReplyToMessage(t, chat, from, uname, reply_to, kind) ==
    /\ tasks[t].pc = "idle"
    /\ next_message_id' = next_message_id + 1
    /\ tasks' = [tasks EXCEPT ![t] =
                    [NewTask(kind, chat, from, uname, <<>>) EXCEPT !.pc = "is_activated",
                                                                  !.reply_to = reply_to]]
    /\ UNCHANGED <<users, pings, next_ping_id, activated_chats, clock, dialogVars>>

\* A reaction set on a message: the router registers message and callback_query
\* handlers only, so no handler receives the update.
ReactionEvent(t, chat, from) ==
    /\ tasks[t].pc = "idle"
    /\ tasks' = [tasks EXCEPT ![t] =
                    [NewTask("reaction", chat, from, NoUsername, <<>>) EXCEPT !.pc = "done"]]
    /\ UNCHANGED <<users, pings, next_ping_id, activated_chats, clock, next_message_id, dialogVars>>

\* ------------------------------------------------------------ handler steps
\* is_activated = await db.is_chat_activated(message.chat.id); if not: return
IsChatActivated(t) ==
    LET task == tasks[t] IN
    /\ task.pc = "is_activated"
    /\ tasks' = [tasks EXCEPT ![t] =
          IF ~ is_chat_activated(activated_chats, task.chat) THEN [task EXCEPT !.pc = "done"]
          ELSE IF task.kind = "reply" THEN [task EXCEPT !.pc = "close_select"]
          ELSE IF task.uname # NoUsername THEN [task EXCEPT !.pc = "utu_select", !.now = clock]
          ELSE [task EXCEPT !.pc = "upsert", !.now = clock]]
    /\ UNCHANGED <<users, pings, next_ping_id, activated_chats, clock, next_message_id, dialogVars>>

\* update_temp_user: temp_user = fetchrow(SELECT ... username = $1 AND user_id < 0)
UpdateTempUserSelect(t) ==
    LET task == tasks[t]
        found == TempUserCandidates(users, task.uname) IN
    /\ task.pc = "utu_select"
    /\ IF found = {}
       THEN tasks' = [tasks EXCEPT ![t] = [task EXCEPT !.pc = "upsert", !.now = clock]]
       ELSE \E id \in found :
               tasks' = [tasks EXCEPT ![t] = [task EXCEPT !.pc = "utu_users", !.tmp = id]]
    /\ UNCHANGED <<users, pings, next_ping_id, activated_chats, clock, next_message_id, dialogVars>>

\* update_temp_user: UPDATE users SET user_id = real ... WHERE user_id = temp.
\* On the primary-key conflict the exception leaves update_temp_user and
\* on_message: the handler ends there.
UpdateTempUserUsers(t) ==
    LET task == tasks[t] IN
    /\ task.pc = "utu_users"
    /\ IF UpdateTempUserConflict(users, task.from, task.tmp)
       THEN /\ tasks' = [tasks EXCEPT ![t] = [task EXCEPT !.pc = "raised"]]
            /\ users' = users
       ELSE /\ tasks' = [tasks EXCEPT ![t] = [task EXCEPT !.pc = "utu_pings"]]
            /\ users' = UpdateTempUserRow(users, task.from, task.now, task.tmp)
    /\ UNCHANGED <<pings, next_ping_id, activated_chats, clock, next_message_id, dialogVars>>

\* update_temp_user: UPDATE pings SET target_user_id = real WHERE target_user_id = temp
UpdateTempUserRepoint(t) ==
    LET task == tasks[t] IN
    /\ task.pc = "utu_pings"
    /\ pings' = UpdateTempUserPings(pings, task.from, task.tmp)
    /\ tasks' = [tasks EXCEPT ![t] = [task EXCEPT !.pc = "upsert", !.now = clock]]
    /\ UNCHANGED <<users, next_ping_id, activated_chats, clock, next_message_id, dialogVars>>

\* await db.upsert_user(...), then the entity loop starts
UpsertUserStep(t) ==
    LET task == tasks[t] IN
    /\ task.pc = "upsert"
    /\ users' = UpsertUser(users, task.from, task.uname, task.now)
    /\ tasks' = [tasks EXCEPT ![t] = NextEntity([task EXCEPT !.now = NULL])]
    /\ UNCHANGED <<pings, next_ping_id, activated_chats, clock, next_message_id, dialogVars>>

\* target_user_id = await db.resolve_username(username)
ResolveUsername(t) ==
    LET task == tasks[t]
        found == ResolveCandidates(users, task.username) IN
    /\ task.pc = "resolve"
    /\ IF found = {}
       THEN tasks' = [tasks EXCEPT ![t] = [task EXCEPT !.pc = "create_temp", !.now = clock]]
       ELSE \E id \in found : tasks' = [tasks EXCEPT ![t] = AfterTarget(task, id)]
    /\ UNCHANGED <<users, pings, next_ping_id, activated_chats, clock, next_message_id, dialogVars>>

\* target_user_id = await db.create_temp_user_by_username(username)
CreateTempUserStep(t) ==
    LET task == tasks[t] IN
    /\ task.pc = "create_temp"
    /\ users' = CreateTempUser(users, task.username, task.now)
    /\ tasks' = [tasks EXCEPT ![t] =
                    AfterTarget([task EXCEPT !.now = NULL], TempUserId(task.username))]
    /\ UNCHANGED <<pings, next_ping_id, activated_chats, clock, next_message_id, dialogVars>>

\* record_ping: the SELECT and `if row: return`
RecordPingSelect(t) ==
    LET task == tasks[t] IN
    /\ task.pc = "rp_select"
    /\ tasks' = [tasks EXCEPT ![t] =
          IF RecordPingExists(pings, task.chat, task.target)
          THEN NextEntity([task EXCEPT !.rp = "exists"])
          ELSE [task EXCEPT !.pc = "rp_insert"]]
    /\ UNCHANGED <<users, pings, next_ping_id, activated_chats, clock, next_message_id, dialogVars>>

\* record_ping: the INSERT
RecordPingInsertStep(t) ==
    LET task == tasks[t] IN
    /\ task.pc = "rp_insert"
    /\ pings' = RecordPingInsert(pings, next_ping_id, task.chat, task.mid, task.from,
                                 task.target, task.reason, task.date)
    /\ next_ping_id' = next_ping_id + 1
    /\ tasks' = [tasks EXCEPT ![t] = NextEntity([task EXCEPT !.rp = "inserted"])]
    /\ UNCHANGED <<users, activated_chats, clock, next_message_id, dialogVars>>

\* close_oldest_open_ping_by_message: the SELECT and `if not row: return None`
CloseSelect(t) ==
    LET task == tasks[t]
        found == CloseCandidates(pings, task.chat, task.from) IN
    /\ task.pc = "close_select"
    /\ IF found = {}
       THEN tasks' = [tasks EXCEPT ![t] = [task EXCEPT !.pc = "done", !.result = NULL]]
       ELSE \E id \in found :
               tasks' = [tasks EXCEPT ![t] = [task EXCEPT !.pc = "close_update", !.ping_id = id]]
    /\ UNCHANGED <<users, pings, next_ping_id, activated_chats, clock, next_message_id, dialogVars>>

\* close_oldest_open_ping_by_message: the UPDATE and `return ping_id`
CloseUpdateStep(t) ==
    LET task == tasks[t] IN
    /\ task.pc = "close_update"
    /\ pings' = CloseUpdate(pings, task.date, task.mid, task.ping_id)
    /\ tasks' = [tasks EXCEPT ![t] = [task EXCEPT !.pc = "done", !.result = task.ping_id]]
    /\ UNCHANGED <<users, next_ping_id, activated_chats, clock, next_message_id, dialogVars>>

\* The handler returns, or its exception reaches the dispatcher, which logs it:
\* the update is not processed again.
Return(t) ==
    /\ tasks[t].pc \in {"done", "raised"}
    /\ tasks' = [tasks EXCEPT ![t] = IdleTask]
    /\ UNCHANGED <<users, pings, next_ping_id, activated_chats, clock, next_message_id, dialogVars>>

\* A statement of the handler fails in the database (connection lost, timeout):
\* asyncpg raises, neither db.py nor on_message / on_reply catches, the
\* statement changes no row and the handler ends there.
DbStatements ==
    {"is_activated", "utu_select", "utu_users", "utu_pings", "upsert", "resolve",
     "create_temp", "rp_select", "rp_insert", "close_select", "close_update"}

StorageFault(t) ==
    /\ tasks[t].pc \in DbStatements
    /\ tasks' = [tasks EXCEPT ![t] = [tasks[t] EXCEPT !.pc = "raised"]]
    /\ UNCHANGED <<users, pings, next_ping_id, activated_chats, clock, next_message_id, dialogVars>>

\* ---------------------------------------------------------- specifications
\* Messages that reach on_message or on_reply.
Arrive(t, chats, senders, unames, entlists) ==
    \E chat \in chats, from \in senders, uname \in unames :
        \/ \E ents \in entlists : OnMessageStart(t, chat, from, uname, ents)
        \/ OnReplyStart(t, chat, from, uname)

\* Messages that reach neither.
ArriveUnhandled(t, chats, senders, unames) ==
    \E chat \in chats, from \in senders, uname \in unames :
        \/ CommandMessage(t, chat, from, uname)
        \/ MediaMessage(t, chat, from, uname)

Step(t) ==
    \/ IsChatActivated(t)
    \/ UpdateTempUserSelect(t)
    \/ UpdateTempUserUsers(t)
    \/ UpdateTempUserRepoint(t)
    \/ UpsertUserStep(t)
    \/ ResolveUsername(t)
    \/ CreateTempUserStep(t)
    \/ RecordPingSelect(t)
    \/ RecordPingInsertStep(t)
    \/ CloseSelect(t)
    \/ CloseUpdateStep(t)
    \/ Return(t)

\* Tasks are anonymous: a new handler invocation takes the first free slot.
FirstIdle(t) == tasks[t].pc = "idle" /\ \A u \in Tasks : u < t => tasks[u].pc # "idle"

\* Concurrent handlers in one conversation.
ConcChats == {1}
ConcEntLists == SeqsUpTo({TextMention(42), Mention("alice")}, 1)

Next ==
    \/ Tick
    \/ \E chat \in ConcChats : activate_chat(chat)
    \/ \E t \in Tasks : FirstIdle(t) /\ next_message_id <= ConcMsgs /\ Arrive(t, ConcChats, Senders, {NoUsername, "alice"}, ConcEntLists)
    \/ \E t \in Tasks : Step(t)

Spec == Init /\ [][Next]_vars

\* Non-overlapping events: an event arrives only when every handler has returned.
SeqEntLists == SeqsUpTo({TextMention(42), Mention("alice")}, MaxEnts)

SeqNext ==
    \/ Tick
    \/ AllIdle /\ \E chat \in Chats : activate_chat(chat)
    \/ AllIdle /\ next_message_id <= SeqMsgs /\ Arrive(1, Chats, Senders, {NoUsername, "alice"}, SeqEntLists)
    \/ AllIdle /\ next_message_id <= SeqMsgs /\ ArriveUnhandled(1, Chats, Senders, {NoUsername, "alice"})
    \/ Step(1)

SeqSpec == Init /\ [][SeqNext]_vars

\* Non-overlapping events with the admin commands and reactions among them.
AdminEntLists == SeqsUpTo({TextMention(42), Mention("alice")}, 1)

AdminNext ==
    \/ Tick
    \/ AllIdle /\ \E chat \in Chats : activate_chat(chat)
    \/ AllIdle /\ \E chat \in Chats : deactivate_chat(chat)
    \/ AllIdle /\ cmd_clear_db
    \/ AllIdle /\ next_message_id <= SeqMsgs /\ Arrive(1, Chats, Senders, {NoUsername, "alice"}, AdminEntLists)
    \/ AllIdle /\ \E chat \in Chats, from \in Senders : ReactionEvent(1, chat, from)
    \/ Step(1)

AdminSpec == Init /\ [][AdminNext]_vars

\* Non-overlapping events with replies to a message and the mention that is
\* only '@' among them.
ReplyEntLists == SeqsUpTo({TextMention(42), Mention("alice"), Mention("")}, 1)

ReplyNext ==
    \/ Tick
    \/ AllIdle /\ \E chat \in Chats : activate_chat(chat)
    \/ AllIdle /\ next_message_id <= SeqMsgs /\ Arrive(1, Chats, Senders, {NoUsername, "alice"}, ReplyEntLists)
    \/ AllIdle /\ next_message_id <= SeqMsgs
          /\ \E chat \in Chats, from \in Senders, reply_to \in Senders, kind \in {"text", "reply"} :
                ReplyToMessage(1, chat, from, NoUsername, reply_to, kind)
    \/ Step(1)

ReplySpec == Init /\ [][ReplyNext]_vars

\* Non-overlapping events in one conversation with handles that differ in case
\* and mentions of bot accounts among them.
HandleEntLists ==
    SeqsUpTo({Mention("alice"), Mention(BotUsername)} \cup {TextMention(b) : b \in Bots}, 1)

HandleNext ==
    \/ Tick
    \/ AllIdle /\ activate_chat(1)
    \/ AllIdle /\ next_message_id <= SeqMsgs /\ Arrive(1, {1}, Senders, {NoUsername} \cup Handles, HandleEntLists)
    \/ Step(1)

HandleSpec == Init /\ [][HandleNext]_vars

\* Concurrent handlers in two conversations, /deactivate_chat running between
\* any two of their statements.
RaceEntLists == SeqsUpTo({TextMention(42), Mention("alice")}, 1)

RaceNext ==
    \/ Tick
    \/ \E chat \in Chats : activate_chat(chat)
    \/ \E chat \in Chats : deactivate_chat(chat)
    \/ \E t \in Tasks : FirstIdle(t) /\ next_message_id <= RaceMsgs /\ Arrive(t, Chats, Senders, {NoUsername, "alice"}, RaceEntLists)
    \/ \E t \in Tasks : Step(t)

RaceSpec == Init /\ [][RaceNext]_vars

\* Non-overlapping events, any statement of a handler may fail.
FaultEntLists == SeqsUpTo({TextMention(42), Mention("alice")}, 1)

FaultNext ==
    \/ Tick
    \/ AllIdle /\ \E chat \in Chats : activate_chat(chat)
    \/ AllIdle /\ next_message_id <= SeqMsgs /\ Arrive(1, Chats, Senders, {NoUsername, "alice"}, FaultEntLists)
    \/ StorageFault(1)
    \/ Step(1)

FaultSpec == Init /\ [][FaultNext]_vars

\* The methods of Database called one at a time, each to its end, with the
\* timestamps the caller passes (test_ping_logic.py); calls come in time order.
ApiTimes(ps) ==
    {ts \in 1..StatsTime : \A p \in ps : ts >= p.ping_ts /\ ts >= p.close_ts}

record_ping(chat_id, source_user_id, target_user_id, ping_ts) ==
    /\ AllIdle
    /\ next_ping_id <= StatsPings
    /\ ~ RecordPingExists(pings, chat_id, target_user_id)
    /\ pings' = RecordPingInsert(pings, next_ping_id, chat_id, next_message_id,
                                 source_user_id, target_user_id, "mention", ping_ts)
    /\ next_ping_id' = next_ping_id + 1
    /\ UNCHANGED <<users, activated_chats, clock, next_message_id, tasks, dialogVars>>

close_oldest_open_ping_by_message(chat_id, user_id, close_ts) ==
    /\ AllIdle
    /\ \E id \in CloseCandidates(pings, chat_id, user_id) :
          pings' = CloseUpdate(pings, close_ts, next_message_id, id)
    /\ UNCHANGED <<users, next_ping_id, activated_chats, clock, next_message_id, tasks, dialogVars>>

upsert_user(user_id, username) ==
    /\ AllIdle
    /\ \A u \in users : u.user_id # user_id
    /\ users' = UpsertUser(users, user_id, username, clock)
    /\ UNCHANGED <<pings, next_ping_id, activated_chats, clock, next_message_id, tasks, dialogVars>>

\* top_users = await db.get_top(chat_id, limit, order)
GetTopCall(chat_id, limit, order) ==
    /\ AllIdle
    /\ \E rows \in get_top(pings, users, chat_id, limit, order) :
          tasks' = [tasks EXCEPT ![1] =
                      [IdleTask EXCEPT !.pc = "done", !.kind = "get_top", !.chat = chat_id,
                           !.reply = [fn |-> "get_top", limit |-> limit, order |-> order,
                                      rows |-> rows]]]
    /\ UNCHANGED <<users, pings, next_ping_id, activated_chats, clock, next_message_id, dialogVars>>

\* stats = await db.get_user_stats(chat_id, user_id, since_ts)
GetUserStatsCall(chat_id, user_id, since_ts) ==
    /\ AllIdle
    /\ tasks' = [tasks EXCEPT ![1] =
                    [IdleTask EXCEPT !.pc = "done", !.kind = "get_user_stats",
                         !.chat = chat_id, !.from = user_id,
                         !.reply = [fn |-> "get_user_stats", since_ts |-> since_ts,
                                    stats |-> get_user_stats(pings, chat_id, user_id, since_ts)]]]
    /\ UNCHANGED <<users, pings, next_ping_id, activated_chats, clock, next_message_id, dialogVars>>

\* (conversation, target) of the calls: three targets in one conversation, one of
\* them also in another
StatsTargets == {<<1, 5>>, <<1, 6>>, <<1, 7>>, <<2, 5>>}
StatsLimits == {2, 10}

\* open_pings = await db.get_open_pings(chat_id)
GetOpenPingsCall(chat_id) ==
    /\ AllIdle
    /\ tasks' = [tasks EXCEPT ![1] =
                    [IdleTask EXCEPT !.pc = "done", !.kind = "get_open_pings", !.chat = chat_id,
                         !.reply = [fn |-> "get_open_pings",
                                    rows |-> get_open_pings(pings, chat_id)]]]
    /\ UNCHANGED <<users, pings, next_ping_id, activated_chats, clock, next_message_id, dialogVars>>

StatsNext ==
    \/ \E ct \in StatsTargets, ts \in ApiTimes(pings) : record_ping(ct[1], 42, ct[2], ts)
    \/ \E ct \in StatsTargets, ts \in ApiTimes(pings) :
          close_oldest_open_ping_by_message(ct[1], ct[2], ts)
    \/ upsert_user(5, "alice")
    \/ \E chat \in Chats, limit \in StatsLimits, order \in {"ASC", "DESC"} :
          GetTopCall(chat, limit, order)
    \/ \E ct \in StatsTargets, since \in {NULL, StatsTime - 1} :
          GetUserStatsCall(ct[1], ct[2], since)
    \/ \E chat \in Chats : GetOpenPingsCall(chat)
    \/ Return(1)

StatsSpec == Init /\ [][StatsNext]_vars

\* Non-overlapping events with /top read between them: the handlers fill the
\* ledger, get_top reads it.
LedgerEntLists == SeqsUpTo({TextMention(42), Mention("alice")}, 1)

LedgerNext ==
    \/ Tick
    \/ AllIdle /\ \E chat \in Chats : activate_chat(chat)
    \/ AllIdle /\ next_message_id <= SeqMsgs /\ Arrive(1, Chats, Senders, {NoUsername, "alice"}, LedgerEntLists)
    \/ \E chat \in Chats, limit \in StatsLimits, order \in {"ASC", "DESC"} :
          GetTopCall(chat, limit, order)
    \/ Step(1)

LedgerSpec == Init /\ [][LedgerNext]_vars

\* ---------------------------------------------------------- activation dialog
\* What the platform answers to get_chat_member(chat_id, user_id).status
ChatMemberStatus(chat_id, user_id) ==
    IF user_id = 42 THEN (IF chat_id = 1 THEN "creator" ELSE "administrator")
    ELSE (IF chat_id = 1 THEN "member" ELSE "restricted")

\* MAIN_ADMIN_ID
is_main_admin(user_id) == user_id = 42

\* the code generate_activation_code draws, and what /activate may be given
Codes == {"ABC12345"}
ActivateArgs == Codes \cup {"abc12345"}
Upper(s) == IF s = "abc12345" THEN "ABC12345" ELSE s

\* check_admin_rights: the cache test
AdminCacheHit(cache, chat_id, user_id, now) ==
    /\ <<chat_id, user_id>> \in DOMAIN cache
    /\ now - cache[<<chat_id, user_id>>] < _admin_cache_ttl

\* check_admin_rights: its return value; ok is false when get_chat_member raises
check_admin_rights(cache, chat_id, user_id, now, ok) ==
    IF AdminCacheHit(cache, chat_id, user_id, now) THEN TRUE
    ELSE IF ok THEN ChatMemberStatus(chat_id, user_id) \in {"creator", "administrator"}
    ELSE FALSE

\* check_admin_rights: _admin_cache[chat_id][user_id] = now after a lookup
AdminCacheAfter(cache, chat_id, user_id, now, ok) ==
    IF AdminCacheHit(cache, chat_id, user_id, now) \/ ~ok THEN cache
    ELSE [key \in DOMAIN cache \cup {<<chat_id, user_id>>} |->
            IF key = <<chat_id, user_id>> THEN now ELSE cache[key]]

\* get_activation_code: SELECT ... WHERE code = $1 AND expires_at > $2 AND used_at IS NULL
get_activation_code(codes, code, now) ==
    {r \in codes : r.code = code /\ r.expires_at > now /\ r.used_at = NULL}

\* activate_chat: UPDATE activation_codes SET used_at = $1, used_by = $2 WHERE code = $3
MarkCodeUsed(codes, code, now, activated_by) ==
    {IF r.code = code THEN [r EXCEPT !.used_at = now, !.used_by = activated_by] ELSE r
        : r \in codes}

\* The reply of a dialog handler, kept for the properties about it.
DialogDone(kind, chat_id, user_id, reply) ==
    [tasks EXCEPT ![1] = [IdleTask EXCEPT !.pc = "done", !.kind = kind, !.chat = chat_id,
                                          !.from = user_id, !.reply = reply]]

\* /generate_code in the private chat with the bot.  The INSERT raises on a
\* code that is already in the table (code is UNIQUE).
cmd_generate_code(user_id, code) ==
    /\ AllIdle
    /\ LET saved == is_main_admin(user_id) /\ \A r \in activation_codes : r.code # code
       IN /\ activation_codes' =
                IF saved
                THEN activation_codes \cup
                        {[code |-> code, expires_at |-> clock + CodeLifetime,
                          created_by |-> user_id, created_at |-> clock,
                          used_at |-> NULL, used_by |-> NULL]}
                ELSE activation_codes
          /\ tasks' = DialogDone("generate_code", NULL, user_id,
                                 [fn |-> "cmd_generate_code", saved |-> saved])
    /\ UNCHANGED <<users, pings, next_ping_id, activated_chats, clock, next_message_id,
                   fsm, _admin_cache>>

\* /activate <code> in a group chat
cmd_activate(chat_id, user_id, arg, ok) ==
    /\ AllIdle
    /\ LET is_admin == check_admin_rights(_admin_cache, chat_id, user_id, clock, ok)
           activation_code == Upper(arg)
           code_info == get_activation_code(activation_codes, activation_code, clock)
           accepted == /\ is_admin
                       /\ ~is_chat_activated(activated_chats, chat_id)
                       /\ code_info # {}
       IN /\ _admin_cache' = AdminCacheAfter(_admin_cache, chat_id, user_id, clock, ok)
          /\ fsm' = IF accepted
                    THEN [fsm EXCEPT ![<<chat_id, user_id>>] =
                            [state |-> "waiting_for_chat_name",
                             activation_code |-> activation_code, chat_id |-> chat_id]]
                    ELSE fsm
          /\ tasks' = DialogDone("activate", chat_id, user_id,
                                 [fn |-> "cmd_activate", is_admin |-> is_admin,
                                  accepted |-> accepted])
    /\ UNCHANGED <<users, pings, next_ping_id, activated_chats, clock, next_message_id,
                   activation_codes>>

\* /name <chat name> in a group chat, the name being valid
cmd_name(chat_id, user_id) ==
    /\ AllIdle
    /\ LET data == fsm[<<chat_id, user_id>>]
           waiting == data.state = "waiting_for_chat_name"
       IN /\ activated_chats' =
                IF waiting THEN activated_chats \cup {data.chat_id} ELSE activated_chats
          /\ activation_codes' =
                IF waiting
                THEN MarkCodeUsed(activation_codes, data.activation_code, clock, user_id)
                ELSE activation_codes
          /\ fsm' = IF waiting THEN [fsm EXCEPT ![<<chat_id, user_id>>] = NoFsm] ELSE fsm
          /\ tasks' = DialogDone("name", chat_id, user_id,
                                 [fn |-> "cmd_name", activated |-> waiting])
    /\ UNCHANGED <<users, pings, next_ping_id, clock, next_message_id, _admin_cache>>

\* /help in a group chat: a chat that is not activated is told so; otherwise
\* `if not await check_admin_rights(message): ...`
cmd_help(chat_id, user_id, ok) ==
    /\ AllIdle
    /\ LET is_activated == is_chat_activated(activated_chats, chat_id)
       IN /\ _admin_cache' =
                IF is_activated
                THEN AdminCacheAfter(_admin_cache, chat_id, user_id, clock, ok)
                ELSE _admin_cache
          /\ tasks' = DialogDone("help", chat_id, user_id,
                                 [fn |-> "cmd_help",
                                  is_admin |-> /\ is_activated
                                               /\ check_admin_rights(_admin_cache, chat_id,
                                                                     user_id, clock, ok)])
    /\ UNCHANGED <<users, pings, next_ping_id, activated_chats, clock, next_message_id,
                   activation_codes, fsm>>

\* The cache's time to live, or a code's lifetime, passes, each at most once.
Elapse(seconds) ==
    /\ clock < seconds
    /\ clock' = clock + seconds
    /\ UNCHANGED <<users, pings, next_ping_id, activated_chats, next_message_id, tasks,
                   dialogVars>>

DialogNext ==
    \/ \E seconds \in {_admin_cache_ttl, CodeLifetime} : Elapse(seconds)
    \/ \E user_id \in Senders, code \in Codes : cmd_generate_code(user_id, code)
    \/ \E chat_id \in Chats, user_id \in Senders, arg \in ActivateArgs, ok \in BOOLEAN :
          cmd_activate(chat_id, user_id, arg, ok)
    \/ \E chat_id \in Chats, user_id \in Senders : cmd_name(chat_id, user_id)
    \/ \E chat_id \in Chats, user_id \in Senders, ok \in BOOLEAN : cmd_help(chat_id, user_id, ok)
    \/ Return(1)

DialogSpec == Init /\ [][DialogNext]_vars

\* ------------------------------------------------------------ format_duration
\* A str is the sequence of its Unicode code points.
\* str(n) of a non-negative int: its decimal digits
RECURSIVE Str(_)
Str(n) == IF n < 10 THEN <<48 + n>> ELSE Str(n \div 10) \o <<48 + (n % 10)>>

\* the literals of format_duration's f-strings: U+0441, U+043C U+0020, U+043C,
\* U+0447 U+0020, U+0447, U+0434 U+0020
LitS == <<1089>>
LitM_ == <<1084, 32>>
LitM == <<1084>>
LitH_ == <<1095, 32>>
LitH == <<1095>>
LitD_ == <<1076, 32>>

format_duration(seconds) ==
    IF seconds < 60 THEN Str(seconds) \o LitS
    ELSE IF seconds < 3600 THEN
        LET minutes == seconds \div 60
            secs == seconds % 60
        IN Str(minutes) \o LitM_ \o Str(secs) \o LitS
    ELSE IF seconds < 86400 THEN
        LET hours == seconds \div 3600
            minutes == (seconds % 3600) \div 60
        IN Str(hours) \o LitH_ \o Str(minutes) \o LitM
    ELSE
        LET days == seconds \div 86400
            hours == (seconds % 86400) \div 3600
        IN Str(days) \o LitD_ \o Str(hours) \o LitH

\* elapsed_str = format_duration(elapsed)
FormatDurationCall(seconds) ==
    /\ AllIdle
    /\ tasks' = [tasks EXCEPT ![1] =
                    [IdleTask EXCEPT !.pc = "done", !.kind = "format_duration",
                         !.reply = [fn |-> "format_duration", seconds |-> seconds,
                                    text |-> format_duration(seconds)]]]
    /\ UNCHANGED <<users, pings, next_ping_id, activated_chats, clock, next_message_id, dialogVars>>

\* the durations of test_format_duration.py and those around each unit
FormatInputs ==
    (0 .. MaxSeconds)
        \cup {a * u + b : a \in 1 .. FormatUnits, u \in {60, 3600, 86400}, b \in {-1, 0, 1}}
        \cup {3661, 90000}

FormatNext ==
    \/ \E seconds \in FormatInputs : FormatDurationCall(seconds)
    \/ Return(1)

FormatSpec == Init /\ [][FormatNext]_vars

\* ================================================================= claims
\* The step of task t: its position or locals change.
Moves(t) == tasks'[t] # tasks[t]

PingById(ps, id) == CHOOSE p \in ps : p.id = id

\* C1: two record_ping calls for the same (chat_id, target_user_id) whose SELECT
\* and INSERT interleave do not both insert: right after any INSERT of
\* record_ping the (conversation, target) has at most one open obligation.
C1_ConcurrentOpensInsertOnce ==
    [][\A t \in Tasks :
          (tasks[t].pc = "rp_insert" /\ Moves(t))
              => Cardinality(OpenPings(pings', tasks[t].chat, tasks[t].target)) <= 1]_vars

\* C2: after any sequence of fully processed message events there is at most one
\* open obligation per (conversation, target participant id).
C2_InvariantA ==
    AllIdle =>
        \A p \in pings, q \in pings :
            (p.close_ts = NULL /\ q.close_ts = NULL /\ p.chat_id = q.chat_id
                /\ p.target_user_id = q.target_user_id) => p.id = q.id

\* C3: record_ping for a (conversation, target) that already has an open
\* obligation returns without inserting and leaves every row as it was.
C3_SecondOpenIsNoOp ==
    [][\A t \in Tasks :
          (tasks[t].pc = "rp_select" /\ Moves(t)
              /\ OpenPings(pings, tasks[t].chat, tasks[t].target) # {})
              => /\ pings' = pings
                 /\ next_ping_id' = next_ping_id
                 /\ tasks'[t].pc \notin {"rp_insert", "raised"}]_vars

\* record_ping has returned on an obligation opened earlier (open at 100, open at 110)
C3_Witness ==
    \E t \in Tasks :
        /\ tasks[t].rp = "exists"
        /\ \E p \in pings : p.close_ts = NULL /\ p.chat_id = tasks[t].chat
                            /\ p.ping_ts < tasks[t].date /\ p.source_message_id < tasks[t].mid

\* C4: the obligation close_oldest_open_ping_by_message picks has the smallest
\* ping_ts among the open obligations of (conversation, target) and, among those
\* with that ping_ts, the smallest id.
C4_ClosesOldestThenFirstInserted ==
    \A t \in Tasks :
        tasks[t].pc = "close_update" =>
            \A q \in OpenPings(pings, tasks[t].chat, tasks[t].from) :
                LET p == PingById(pings, tasks[t].ping_id)
                IN \/ p.ping_ts < q.ping_ts
                   \/ p.ping_ts = q.ping_ts /\ p.id <= q.id

\* C5: when T has an open obligation in an activated conversation, T's next
\* message of any kind, once processed, leaves T with one open obligation fewer.
C5_AnyMessageCloses ==
    \A t \in Tasks :
        (tasks[t].pc \in {"done", "raised"} /\ tasks[t].chat \in activated_chats
            /\ tasks[t].open0 >= 1)
            => Cardinality(OpenPings(pings, tasks[t].chat, tasks[t].from)) = tasks[t].open0 - 1

\* C6: once update_temp_user(h, R) has run for a handle h that has a provisional
\* participant, no obligation references the provisional id and
\* resolve_username(h) returns R.
C6_PromotionRepoints ==
    \A t \in Tasks :
        (tasks[t].tmp # NULL /\ tasks[t].pc \in {"upsert", "raised"})
            => /\ \A p \in pings : p.target_user_id # tasks[t].tmp
                                   /\ p.source_user_id # tasks[t].tmp
               /\ ResolveCandidates(users, tasks[t].uname) = {tasks[t].from}

\* C7: promotion is all-or-nothing: in no state does an obligation target a
\* provisional id whose participant record has already been rewritten.
C7_PromotionAllOrNothing ==
    \A p \in pings :
        p.target_user_id < 0 => \E u \in users : u.user_id = p.target_user_id

\* C8: an obligation is closed at most once: no step changes the closed-at,
\* close kind or closing message id of a closed obligation, and no two close
\* calls return the same obligation id.
C8_ClosedAtMostOnce ==
    /\ [][\A p \in pings :
            p.close_ts # NULL =>
                \A q \in pings' :
                    q.id = p.id => /\ q.close_ts = p.close_ts
                                   /\ q.close_type = p.close_type
                                   /\ q.close_message_id = p.close_message_id]_vars
    /\ [](\A t \in Tasks, u \in Tasks :
            (t # u /\ tasks[t].pc = "done" /\ tasks[u].pc = "done"
                /\ tasks[t].result \notin {NULL, NotCalled})
                => tasks[t].result # tasks[u].result)

\* C9: close_oldest_open_ping_by_message for a (conversation, target) with no
\* open obligation returns None and changes no row of pings or users.
C9_CloseWithNothingOpen ==
    [][\A t \in Tasks :
          (tasks[t].pc = "close_select" /\ Moves(t)
              /\ OpenPings(pings, tasks[t].chat, tasks[t].from) = {})
              => /\ pings' = pings
                 /\ users' = users
                 /\ tasks'[t].pc = "done"
                 /\ tasks'[t].result = NULL]_vars

\* the call has returned None while the conversation holds an open obligation
\* of another target
C9_Witness ==
    \E t \in Tasks :
        /\ tasks[t].pc = "done" /\ tasks[t].result = NULL
        /\ \E p \in pings : p.chat_id = tasks[t].chat /\ p.close_ts = NULL
                            /\ p.target_user_id # tasks[t].from

\* C10: when close_oldest_open_ping_by_message finds an open obligation it
\* returns that id and stamps exactly that row with close_ts = at,
\* close_type = 'message', close_message_id = the closing message; the row leaves
\* get_open_pings(conversation) and its duration is at minus ping_ts.
C10_CloseStampsOneRow ==
    [][\A t \in Tasks :
          /\ (tasks[t].pc = "close_select" /\ Moves(t)
                /\ OpenPings(pings, tasks[t].chat, tasks[t].from) # {})
                => /\ tasks'[t].pc = "close_update"
                   /\ tasks'[t].ping_id \in
                         {p.id : p \in OpenPings(pings, tasks[t].chat, tasks[t].from)}
                   /\ pings' = pings
          /\ (tasks[t].pc = "close_update" /\ Moves(t))
                => LET old == PingById(pings, tasks[t].ping_id)
                       new == PingById(pings', tasks[t].ping_id)
                   IN /\ tasks'[t].pc = "done"
                      /\ tasks'[t].result = old.id
                      /\ old \in OpenPings(pings, tasks[t].chat, tasks[t].from)
                      /\ new = [old EXCEPT !.close_ts = tasks[t].date,
                                           !.close_type = "message",
                                           !.close_message_id = tasks[t].mid]
                      /\ pings' = (pings \ {old}) \cup {new}
                      /\ old.id \in DOMAIN get_open_pings(pings, tasks[t].chat)
                      /\ old.id \notin DOMAIN get_open_pings(pings', tasks[t].chat)
                      /\ new.close_ts - new.ping_ts = tasks[t].date - old.ping_ts]_vars

\* a close has returned the id of an obligation, now closed with a positive duration
C10_Witness ==
    \E t \in Tasks :
        /\ tasks[t].pc = "done" /\ tasks[t].result \notin {NULL, NotCalled}
        /\ \E p \in pings : /\ p.id = tasks[t].result
                            /\ p.close_ts = tasks[t].date
                            /\ p.close_message_id = tasks[t].mid
                            /\ p.close_ts - p.ping_ts > 0

\* The handler run by task t across a step: the one it starts or the one it is in.
Handler(t) == IF tasks[t].pc = "idle" THEN tasks'[t] ELSE tasks[t]

\* C11: while a conversation is not activated, no step of on_message or on_reply
\* for an event of that conversation writes to users or pings: no participant is
\* upserted or promoted, no obligation opened or closed; the handler ends at the
\* is_chat_activated check.
C11_AuthorizationGate ==
    [][\A t \in Tasks :
          (Moves(t) /\ Handler(t).kind \in {"text", "reply"}
              /\ Handler(t).chat \notin activated_chats)
              => /\ users' = users
                 /\ pings' = pings
                 /\ next_ping_id' = next_ping_id
                 /\ tasks[t].pc = "is_activated" => tasks'[t].pc = "done"]_vars

\* a text message with a handle and mentions has been dropped at the gate while
\* the database holds participants of an activated conversation
C11_Witness ==
    \E t \in Tasks :
        /\ tasks[t].pc = "done" /\ tasks[t].kind = "text"
        /\ tasks[t].chat \notin activated_chats
        /\ tasks[t].ents # <<>> /\ tasks[t].uname # NoUsername
        /\ tasks[t].result = NotCalled
        /\ users # {} /\ activated_chats # {}

\* rows of users holding handle h (ignoring case) with a provisional / confirmed id
ProvisionalFor(us, h) ==
    {u \in us : u.user_id < 0 /\ u.username # NoUsername /\ Lower(u.username) = Lower(h)}

ConfirmedFor(us, h) ==
    {u \in us : u.user_id > 0 /\ u.username # NoUsername /\ Lower(u.username) = Lower(h)}

\* C12: resolving-or-creating the provisional participant of a handle that no
\* confirmed participant holds yields a negative id, leaves exactly one
\* provisional row for the handle, carrying that id, and yields the id of the
\* provisional row an earlier mention left.
C12_ProvisionalIdempotent ==
    [][\A t \in Tasks :
          (Moves(t) /\ tasks[t].pc \in {"resolve", "create_temp"}
              /\ tasks'[t].pc # "create_temp"
              /\ ConfirmedFor(users, tasks[t].username) = {})
              => LET id == tasks'[t].target
                 IN /\ id < 0
                    /\ tasks'[t].pc = "rp_select"
                    /\ {u.user_id : u \in ProvisionalFor(users', tasks[t].username)} = {id}
                    /\ Cardinality(ProvisionalFor(users', tasks[t].username)) = 1
                    /\ \A u \in ProvisionalFor(users, tasks[t].username) : u.user_id = id]_vars

\* a later message mentions the handle again: it resolved to the provisional id
\* that the earlier mention's obligation targets
C12_Witness ==
    \E t \in Tasks :
        /\ tasks[t].rp = "exists" /\ tasks[t].reason = "mention" /\ tasks[t].target < 0
        /\ Cardinality(ProvisionalFor(users, tasks[t].username)) = 1
        /\ \E p \in pings : /\ p.target_user_id = tasks[t].target
                            /\ p.source_message_id < tasks[t].mid

\* C13: resolve_username(handle) returns a confirmed participant holding the
\* handle (ignoring case) with the greatest last_seen_ts among them, and none
\* when no confirmed participant holds it; it never returns a provisional id.
C13_ResolveConfirmedOnly ==
    [][\A t \in Tasks :
          (Moves(t) /\ tasks[t].pc = "resolve")
              => LET confirmed == ConfirmedFor(users, tasks[t].username)
                     latest == {u \in confirmed :
                                   \A v \in confirmed : u.last_seen_ts >= v.last_seen_ts}
                 IN IF confirmed = {}
                    THEN tasks'[t].pc = "create_temp"
                    ELSE tasks'[t] \in {AfterTarget(tasks[t], u.user_id) : u \in latest}]_vars

\* C14: no obligation has its source equal to its target, promotions included.
C14_NoSelfObligation ==
    \A p \in pings : p.source_user_id # p.target_user_id

\* C15: deactivating an activated conversation deletes every obligation of the
\* conversation and every participant who took part in one of them and is in no
\* obligation that remains.
C15_TeardownDeletesOrphans ==
    [][\A chat \in Chats :
          (chat \in activated_chats /\ chat \notin activated_chats')
              => /\ \A p \in pings' : p.chat_id # chat
                 /\ \A u \in users :
                       (/\ \E p \in pings : /\ p.chat_id = chat
                                             /\ u.user_id \in {p.source_user_id, p.target_user_id}
                        /\ \A p \in pings' : u.user_id \notin {p.source_user_id, p.target_user_id})
                           => \A v \in users' : v.user_id # u.user_id]_vars

\* C16: an open obligation is still there and still open after every step,
\* except a close made for its own target in its own conversation, the
\* deactivation of its conversation, and the reset of the whole database.
C16_OpenStaysOpen ==
    [][\A p \in pings :
          p.close_ts = NULL =>
              \/ \E q \in pings' : q.id = p.id /\ q.chat_id = p.chat_id /\ q.close_ts = NULL
              \/ \E t \in Tasks : /\ tasks[t].pc = "close_update" /\ Moves(t)
                                  /\ tasks[t].from = p.target_user_id
                                  /\ tasks[t].chat = p.chat_id
              \/ p.chat_id \in activated_chats /\ p.chat_id \notin activated_chats'
              \/ pings' = {} /\ users' = {} /\ activated_chats' = {}]_vars

\* time has passed and a later event of another participant or conversation has
\* been processed to its end, its close finding nothing: the obligation is open
C16_Witness ==
    \E p \in pings, t \in Tasks :
        /\ p.close_ts = NULL
        /\ tasks[t].pc = "done" /\ tasks[t].kind \in {"text", "reply"}
        /\ tasks[t].chat \in activated_chats /\ tasks[t].result = NULL
        /\ tasks[t].mid > p.source_message_id /\ tasks[t].date > p.ping_ts
        /\ tasks[t].from # p.target_user_id \/ tasks[t].chat # p.chat_id

\* closed obligations of a participant in a conversation
ClosedOf(chat, id) ==
    {p \in pings : p.chat_id = chat /\ p.target_user_id = id /\ p.close_ts # NULL}

\* participants with a closed obligation in a conversation
Answered(chat) == {p.target_user_id : p \in {q \in pings : q.chat_id = chat /\ q.close_ts # NULL}}

\* C17: get_top lists a participant only if they are the target of a closed
\* obligation of the conversation, lists each at most once and lists every such
\* participant unless the limit is reached; a row's count is the number of those
\* closed obligations and its average times the count is the sum of their
\* close_ts - ping_ts; open obligations and other conversations add nothing.
C17_TopMembershipAndValues ==
    \A t \in Tasks :
        tasks[t].reply.fn = "get_top" =>
            LET rows == tasks[t].reply.rows
                chat == tasks[t].chat
            IN /\ \A i \in DOMAIN rows :
                     LET c == ClosedOf(chat, rows[i].target_user_id)
                     IN /\ c # {}
                        /\ rows[i].n = Cardinality(c)
                        /\ rows[i].avg_sec[2] > 0
                        /\ rows[i].avg_sec[1] * rows[i].n = SumDurations(c) * rows[i].avg_sec[2]
               /\ \A i \in DOMAIN rows, j \in DOMAIN rows :
                     i # j => rows[i].target_user_id # rows[j].target_user_id
               /\ \/ Cardinality(DOMAIN rows) = tasks[t].reply.limit
                  \/ \A id \in Answered(chat) : \E i \in DOMAIN rows : rows[i].target_user_id = id

\* get_top has listed a participant with two closed obligations of different
\* durations while another conversation holds a closed obligation
C17_Witness ==
    \E t \in Tasks :
        /\ tasks[t].reply.fn = "get_top"
        /\ \E i \in DOMAIN tasks[t].reply.rows :
              /\ tasks[t].reply.rows[i].n = 2
              /\ tasks[t].reply.rows[i].avg_sec[1] = 1
        /\ \E p \in pings : p.chat_id # tasks[t].chat /\ p.close_ts # NULL

\* C18: get_top returns min(limit, participants with data) rows, sorted by
\* average ascending for ASC and descending for DESC, and no participant left
\* out comes before a listed one in that ordering.
C18_TopSortedAndLimited ==
    \A t \in Tasks :
        tasks[t].reply.fn = "get_top" =>
            LET rows == tasks[t].reply.rows
                chat == tasks[t].chat
                k == Cardinality(DOMAIN rows)
                InOrder(x, y) == IF tasks[t].reply.order = "ASC" THEN AvgLeq(x, y)
                                 ELSE AvgLeq(y, x)
            IN /\ DOMAIN rows = 1..k
               /\ k = IF tasks[t].reply.limit < Cardinality(Answered(chat))
                      THEN tasks[t].reply.limit ELSE Cardinality(Answered(chat))
               /\ \A i \in 1..k, j \in 1..k :
                     i < j => InOrder(rows[i].avg_sec, rows[j].avg_sec)
               /\ \A id \in Answered(chat) :
                     (\A i \in 1..k : rows[i].target_user_id # id)
                         => \A i \in 1..k : InOrder(rows[i].avg_sec, Avg(ClosedOf(chat, id)))

\* three participants with three different averages, limit 2, fastest first:
\* the two smallest averages, in that order
C18_Witness ==
    \E t \in Tasks :
        /\ tasks[t].reply.fn = "get_top"
        /\ tasks[t].reply.limit = 2 /\ tasks[t].reply.order = "ASC"
        /\ Cardinality(Answered(tasks[t].chat)) = 3
        /\ Cardinality(DOMAIN tasks[t].reply.rows) = 2
        /\ ~ AvgLeq(tasks[t].reply.rows[2].avg_sec, tasks[t].reply.rows[1].avg_sec)
        /\ \E id \in Answered(tasks[t].chat) :
              ~ AvgLeq(Avg(ClosedOf(tasks[t].chat, id)), tasks[t].reply.rows[2].avg_sec)

\* C19: get_user_stats(conversation, participant, since) returns None exactly
\* when the participant has no closed obligation in the conversation with
\* ping_ts >= since (none at all when since is None); otherwise it returns the
\* count of those obligations and the mean of their close_ts - ping_ts.
C19_UserStats ==
    \A t \in Tasks :
        tasks[t].reply.fn = "get_user_stats" =>
            LET stats == tasks[t].reply.stats
                since == tasks[t].reply.since_ts
                sel == {p \in ClosedOf(tasks[t].chat, tasks[t].from) :
                           since = NULL \/ p.ping_ts >= since}
            IN /\ stats = <<>> <=> sel = {}
               /\ sel # {} => /\ stats[1] = Cardinality(sel)
                              /\ stats[2][2] > 0
                              /\ stats[2][1] * Cardinality(sel) = SumDurations(sel) * stats[2][2]

\* one obligation counted with a positive mean while `since` leaves out an
\* earlier closed obligation of the same participant
C19_Witness ==
    \E t \in Tasks :
        /\ tasks[t].reply.fn = "get_user_stats"
        /\ tasks[t].reply.since_ts # NULL
        /\ tasks[t].reply.stats # <<>>
        /\ tasks[t].reply.stats[1] = 1
        /\ tasks[t].reply.stats[2][1] > 0
        /\ \E p \in ClosedOf(tasks[t].chat, tasks[t].from) : p.ping_ts < tasks[t].reply.since_ts

\* C20: a reaction set by T in an activated conversation where T has an open
\* obligation leaves T with one open obligation fewer, the closed one carrying
\* close_type 'reaction'.
C20_ReactionCloses ==
    \A t \in Tasks :
        (tasks[t].pc = "done" /\ tasks[t].kind = "reaction"
            /\ tasks[t].chat \in activated_chats /\ tasks[t].open0 >= 1)
            => /\ Cardinality(OpenPings(pings, tasks[t].chat, tasks[t].from)) = tasks[t].open0 - 1
               /\ \E p \in pings : /\ p.chat_id = tasks[t].chat
                                   /\ p.target_user_id = tasks[t].from
                                   /\ p.close_type = "reaction"
                                   /\ p.close_ts = tasks[t].date

\* C21: when A replies to a message of B (B different from A) in an activated
\* conversation, B has an open obligation there once the reply is processed:
\* the one B had, or one the reply opened with source A.
C21_ReplyOpens ==
    \A t \in Tasks :
        (tasks[t].pc = "done" /\ tasks[t].reply_to \notin {NULL, tasks[t].from}
            /\ tasks[t].chat \in activated_chats)
            => \E p \in OpenPings(pings, tasks[t].chat, tasks[t].reply_to) :
                  p.source_message_id = tasks[t].mid => p.source_user_id = tasks[t].from

\* C22: when the message of a never-seen R promotes the provisional participant
\* of R's handle, which was mentioned in the conversation, the handler closes
\* that obligation: none targets the provisional id, the mention's obligation
\* is closed by this message and get_user_stats(conversation, R) is one sample
\* of duration close time minus mention time.
C22_FirstMessagePromotesAndCloses ==
    \A t \in Tasks :
        LET task == tasks[t]
            inherited == {p \in pings : /\ p.chat_id = task.chat
                                        /\ p.target_user_id = task.from
                                        /\ p.ping_reason = "mention"}
        IN (task.pc = "done" /\ task.kind = "text" /\ task.tmp # NULL /\ inherited # {})
              => /\ \A p \in pings : p.target_user_id # task.tmp
                 /\ \A p \in inherited :
                       /\ p.close_ts = task.date
                       /\ p.close_message_id = task.mid
                       /\ get_user_stats(pings, task.chat, task.from, NULL)
                              = <<1, <<task.date - p.ping_ts, 1>>>>

\* C23: no step lowers the last_seen_ts of a participant record, the record
\* being followed through the id rewrite of update_temp_user.
C23_LastSeenMonotone ==
    [][\A u \in users, v \in users' :
          (\/ v.user_id = u.user_id
           \/ \E t \in Tasks : /\ tasks[t].pc = "utu_users" /\ tasks'[t].pc = "utu_pings"
                               /\ u.user_id = tasks[t].tmp /\ v.user_id = tasks[t].from)
              => v.last_seen_ts >= u.last_seen_ts]_vars

\* C24: a mention whose handle is empty creates no participant record and
\* opens no obligation.
C24_EmptyHandleRejected ==
    /\ \A u \in users : u.username # "" /\ u.user_id # TempUserId("")
    /\ \A p \in pings : p.target_user_id # TempUserId("")

\* C27: get_open_pings(conversation) holds one entry (target, ping_ts, source
\* message id) for each obligation of the conversation with close_ts unset and
\* nothing else; a target with no closed obligation is listed, a closed
\* obligation is not.
C27_OpenPingsExact ==
    \A t \in Tasks :
        tasks[t].reply.fn = "get_open_pings" =>
            LET rows == tasks[t].reply.rows
                open == {p \in pings : p.chat_id = tasks[t].chat /\ p.close_ts = NULL}
            IN /\ DOMAIN rows = {p.id : p \in open}
               /\ \A p \in open : rows[p.id] = <<p.target_user_id, p.ping_ts, p.source_message_id>>

\* the list holds a target that has no closed obligation, while a closed
\* obligation of the conversation and an open one of another are left out
C27_Witness ==
    \E t \in Tasks :
        /\ tasks[t].reply.fn = "get_open_pings"
        /\ \E i \in DOMAIN tasks[t].reply.rows :
              ClosedOf(tasks[t].chat, tasks[t].reply.rows[i][1]) = {}
        /\ \E p \in pings : p.chat_id = tasks[t].chat /\ p.close_ts # NULL
        /\ \E p \in pings : p.chat_id # tasks[t].chat /\ p.close_ts = NULL

\* C29: every closed obligation has close_ts >= ping_ts.
C29_NonNegativeDuration ==
    \A p \in pings : p.close_ts # NULL => p.close_ts >= p.ping_ts

\* C30: every obligation has close_ts, close_type and close_message_id all
\* unset or all set, and a set close_type is 'message'.
C30_OpenOrClosed ==
    \A p \in pings :
        \/ p.close_ts = NULL /\ p.close_type = NoType /\ p.close_message_id = NULL
        \/ p.close_ts # NULL /\ p.close_type = "message" /\ p.close_message_id # NULL

\* two handlers are at work while one obligation is closed and another open
C30_Witness ==
    /\ \E p \in pings : p.close_ts # NULL
    /\ \E p \in pings : p.close_ts = NULL
    /\ \A t \in Tasks : tasks[t].pc \notin {"idle", "done", "raised"}

\* C28: format_duration(seconds) is 'S \u0441\u0435\u043a' below 60,
\* 'M \u043c\u0438\u043d S \u0441\u0435\u043a' below 3600,
\* 'H \u0447 M \u043c\u0438\u043d' below 86400 and 'D \u0434 H \u0447' from
\* 86400 on, the numbers in decimal and each followed by a space and its unit.
C28_Sec == <<32, 1089, 1077, 1082>>
C28_Min == <<32, 1084, 1080, 1085>>
C28_Hour == <<32, 1095>>
C28_Day == <<32, 1076>>
C28_FormatDuration ==
    \A t \in Tasks :
        tasks[t].reply.fn = "format_duration" =>
            LET seconds == tasks[t].reply.seconds
                text == tasks[t].reply.text
            IN text =
                 IF seconds < 60 THEN Str(seconds) \o C28_Sec
                 ELSE IF seconds < 3600 THEN
                    Str(seconds \div 60) \o C28_Min \o <<32>> \o Str(seconds % 60) \o C28_Sec
                 ELSE IF seconds < 86400 THEN
                    Str(seconds \div 3600) \o C28_Hour \o <<32>>
                        \o Str((seconds % 3600) \div 60) \o C28_Min
                 ELSE Str(seconds \div 86400) \o C28_Day \o <<32>>
                        \o Str((seconds % 86400) \div 3600) \o C28_Hour

\* C25: check_admin_rights answers true for (chat, user) only when the platform
\* reports the user as creator or administrator of the chat.
C25_OnlyAdminsGranted ==
    \A t \in Tasks :
        (tasks[t].reply.fn \in {"cmd_activate", "cmd_help"} /\ tasks[t].reply.is_admin)
            => ChatMemberStatus(tasks[t].chat, tasks[t].from) \in {"creator", "administrator"}

\* C26: a step in which a conversation becomes activated by /name uses a code
\* whose used_at is unset before the step: no conversation is activated with a
\* code that already activated one.
C26_CodeSingleUse ==
    [][\A key \in Chats \X Senders :
          (/\ fsm[key].state = "waiting_for_chat_name"
           /\ fsm'[key].state = "none"
           /\ key[1] \notin activated_chats
           /\ key[1] \in activated_chats')
              => \E r \in activation_codes :
                    r.code = fsm[key].activation_code /\ r.used_at = NULL]_vars

C33_NoObligationAfterTeardown ==
    \A p \in pings : p.chat_id \in activated_chats

\* C32: when the obligations of (conversation, target) are all closed,
\* record_ping finds no open one and inserts; the step that inserts an
\* obligation for a target with closed ones leaves exactly one open obligation
\* for it, keeps every closed obligation as it is and changes neither
\* get_user_stats nor the groups of get_top.
C32_CloseReenablesOpen ==
    [][/\ \A ct \in StatsTargets :
             (ClosedOf(ct[1], ct[2]) # {} /\ OpenPings(pings, ct[1], ct[2]) = {})
                 => ~ RecordPingExists(pings, ct[1], ct[2])
       /\ \A ct \in StatsTargets :
             (/\ ClosedOf(ct[1], ct[2]) # {}
              /\ next_ping_id' = next_ping_id + 1
              /\ \E p \in pings' \ pings : p.chat_id = ct[1] /\ p.target_user_id = ct[2])
                 => /\ Cardinality(OpenPings(pings', ct[1], ct[2])) = 1
                    /\ \A p \in pings : p.close_ts # NULL => p \in pings'
                    /\ get_user_stats(pings', ct[1], ct[2], NULL)
                          = get_user_stats(pings, ct[1], ct[2], NULL)
                    /\ GetTopGroups(pings', users', ct[1]) = GetTopGroups(pings, users, ct[1])]_vars

\* a target has a closed obligation and a later open one in the same conversation
C32_Witness ==
    \E p \in pings, q \in pings :
        /\ p.chat_id = q.chat_id /\ p.target_user_id = q.target_user_id
        /\ p.close_ts # NULL /\ q.close_ts = NULL
        /\ q.id > p.id /\ q.ping_ts >= p.close_ts

\* C34: a message of R sent with handle h in an activated conversation is
\* processed to completion, also when R already has a participant record, and
\* afterwards no participant record and no obligation carries the provisional
\* id of h.
C34_PromotionWithExistingRecord ==
    \A t \in Tasks :
        (/\ tasks[t].pc \in {"done", "raised"}
         /\ tasks[t].kind = "text"
         /\ tasks[t].uname # NoUsername
         /\ tasks[t].chat \in activated_chats)
            => /\ tasks[t].pc = "done"
               /\ \A u \in users : u.user_id # TempUserId(tasks[t].uname)
               /\ \A p \in pings : p.target_user_id # TempUserId(tasks[t].uname)

\* C38: no two obligations share conversation, source message id and target.
C38_OnePerMessageAndTarget ==
    \A p \in pings, q \in pings :
        (/\ p.chat_id = q.chat_id
         /\ p.source_message_id = q.source_message_id
         /\ p.target_user_id = q.target_user_id)
            => p = q

\* C35: once a message of a user with handle h has been processed to its end, no
\* provisional participant holds a handle equal to h up to case and no
\* obligation targets the provisional id of such a handle.
C35_PromotionIgnoresCase ==
    \A t \in Tasks :
        (/\ tasks[t].pc = "done" /\ tasks[t].kind = "text"
         /\ tasks[t].uname # NoUsername
         /\ tasks[t].chat \in activated_chats)
            => /\ \A u \in users :
                     u.user_id < 0 => Lower(u.username) # Lower(tasks[t].uname)
               /\ \A h \in Handles :
                     Lower(h) = Lower(tasks[t].uname)
                         => \A p \in pings : p.target_user_id # TempUserId(h)

\* C36: no participant record and no obligation stands for a bot account: none
\* carries the id of a bot, the bot's handle or the provisional id of that handle.
C36_NoObligationAgainstBot ==
    /\ \A u \in users :
          /\ u.user_id \notin Bots
          /\ u.user_id # TempUserId(BotUsername)
          /\ Lower(u.username) # Lower(BotUsername)
    /\ \A p \in pings :
          p.target_user_id \notin Bots /\ p.target_user_id # TempUserId(BotUsername)

\* C37: a step in which a conversation becomes activated by /name happens at a
\* time not later than expires_at of the code it uses.
C37_NoActivationAfterExpiry ==
    [][\A key \in Chats \X Senders :
          (/\ fsm[key].state = "waiting_for_chat_name"
           /\ fsm'[key].state = "none"
           /\ key[1] \notin activated_chats
           /\ key[1] \in activated_chats')
              => \A r \in activation_codes :
                    r.code = fsm[key].activation_code => clock <= r.expires_at]_vars

\* C39: the ledger works for a target that has no row in users: whenever
\* get_top is read, every participant of the conversation with a closed
\* obligation and no users row is listed (unless the limit is reached) with the
\* number of their closed obligations, their average and the name user_<id>.
C39_TargetWithoutRecord ==
    \A t \in Tasks :
        tasks[t].reply.fn = "get_top" =>
            LET rows == tasks[t].reply.rows
                chat == tasks[t].chat
            IN \A id \in Answered(chat) :
                  (\A u \in users : u.user_id # id) =>
                      \/ Cardinality(DOMAIN rows) = tasks[t].reply.limit
                      \/ \E i \in DOMAIN rows :
                            /\ rows[i].target_user_id = id
                            /\ rows[i].n = Cardinality(ClosedOf(chat, id))
                            /\ rows[i].avg_sec = Avg(ClosedOf(chat, id))
                            /\ rows[i].username = <<"user_", id>>

\* get_top has listed user 42 as user_42 with one closed obligation that a
\* text_mention opened and a message of 42 closed, users holding no row of 42
C39_Witness ==
    \E t \in Tasks :
        /\ tasks[t].reply.fn = "get_top"
        /\ \A u \in users : u.user_id # 42
        /\ \E p \in ClosedOf(tasks[t].chat, 42) :
              p.ping_reason = "text_mention" /\ p.close_type = "message"
        /\ \E i \in DOMAIN tasks[t].reply.rows :
              /\ tasks[t].reply.rows[i].target_user_id = 42
              /\ tasks[t].reply.rows[i].n = 1
              /\ tasks[t].reply.rows[i].username = <<"user_", 42>>

\* rows of a failed handler whose update_temp_user had found a provisional id:
\* as before update_temp_user (the provisional record is there) or as after it
\* (no record and no obligation carries the provisional id)
C40_BeforeOrAfter(t) ==
    tasks[t].tmp # NULL =>
        \/ \E u \in users : u.user_id = tasks[t].tmp
        \/ /\ \A u \in users : u.user_id # tasks[t].tmp
           /\ \A p \in pings : p.target_user_id # tasks[t].tmp

\* C40: a storage fault leaves the handler as an exception and the event is not
\* taken up again; when a handler has failed, the rows are as before the failed
\* operation or as after a fully applied one and there is at most one open
\* obligation per (conversation, target).
C40_FaultLeavesNoPartialState ==
    /\ [][\A t \in Tasks : tasks[t].pc = "raised" => tasks'[t].pc \in {"raised", "idle"}]_vars
    /\ [](\A t \in Tasks :
            tasks[t].pc = "raised" =>
                /\ C40_BeforeOrAfter(t)
                /\ \A p \in pings, q \in pings :
                      (p.close_ts = NULL /\ q.close_ts = NULL /\ p.chat_id = q.chat_id
                          /\ p.target_user_id = q.target_user_id) => p.id = q.id)

====
